---- MODULE Spec2Model ----
(***************************************************************************)
(* Model of the voice-memo-to-doc pipeline (src/util.py, src/config.py):   *)
(* the OAuth credential lifecycle (GoogleDocsService._get_credentials),    *)
(* chunked cleanup (TranscriptionService.clean_text), the document         *)
(* provider (create_document / append_text), the orchestrator              *)
(* (AudioProcessor.process_files) and the command line entry (main).       *)
(*                                                                         *)
(* Every blocking provider call is one step, so that a failure can be      *)
(* placed at each call and the order of the calls can be observed.         *)
(* A provider call that raises has had no effect on the provider's state.  *)
(* The local file system does what it is asked: the token path can be      *)
(* written, and a file that main found is still there for os.stat.         *)
(***************************************************************************)
EXTENDS Integers, Sequences, FiniteSets, TLC

VARIABLES
    pc,                  \* control point of the single thread
    error,               \* "" or the kind of the exception in flight
    \* ---- GoogleDocsService._get_credentials
    token_file,          \* <<>> when TOKEN_JSON does not exist, else <<content>>
    token_file0,         \* history: the token file when the run started
    creds,               \* local creds: <<>> for None, else <<credential>>
    refresh_calls,       \* history: calls of creds.refresh
    flow_calls,          \* history: calls of flow.run_local_server
    token_writes,        \* history: calls of token_path.write_text
    \* ---- TranscriptionService.clean_text
    text,                \* argument of clean_text, as the chunks _split gives
    chunks,              \* chunks not yet sent (rest of the for loop)
    cleaned_chunks,      \* list cleaned_chunks
    clean_calls,         \* history: completion calls: chunk sent, answer got
    clean_result,        \* <<>> or <<value returned by clean_text>>
    \* ---- document provider and GoogleDocsService
    docs,                \* remote documents, documentId = position
    end_index,           \* local end_index of append_text
    \* ---- AudioProcessor.process_files
    files,               \* argument files
    output_title,        \* argument output_title ("" when not given)
    doc_info,            \* <<>> or <<[id, url]>>
    results,             \* list results
    idx,                 \* position of the loop over files (1-based)
    clean_transcription, \* local clean_transcription
    formatted_text,      \* local formatted_text
    appended,            \* history: texts of the successful batchUpdates
    calls,               \* history: provider calls of the run, in order
    retval,              \* <<>> or <<list returned by process_files>>
    \* ---- main
    args,                \* parsed arguments and the file system they meet
    exit_code            \* -1 while running, else the value main returned

vars == <<pc, error, token_file, token_file0, creds, refresh_calls,
          flow_calls, token_writes, text, chunks, cleaned_chunks,
          clean_calls, clean_result, docs, end_index, files, output_title,
          doc_info, results, idx, clean_transcription, formatted_text,
          appended, calls, retval, args, exit_code>>

authVars  == <<token_file, token_file0, creds, refresh_calls, flow_calls,
               token_writes>>
cleanVars == <<text, chunks, cleaned_chunks, clean_calls, clean_result>>
docVars   == <<docs, end_index>>
pipeVars  == <<files, output_title, doc_info, results, idx,
               clean_transcription, formatted_text, appended, calls, retval>>
mainVars  == <<args, exit_code>>

----------------------------------------------------------------------------
(* Bounds of the model. *)

MaxFiles  == 2      \* longest list given to -f
MaxTokens == 3      \* most chunks _split produces for one transcription
MaxAppends == 2     \* most texts one of two concurrent appenders appends

(* Program constants. *)

GPT_CHUNK_SIZE == 2000

----------------------------------------------------------------------------
(* Small helpers on sequences. *)

RECURSIVE Concat(_)
Concat(ss) == IF ss = <<>> THEN <<>> ELSE Head(ss) \o Concat(Tail(ss))

RECURSIVE SumLen(_)
SumLen(ts) == IF ts = <<>> THEN 0 ELSE Head(ts).len + SumLen(Tail(ts))

SeqsUpTo(S, n) == UNION {[1..k -> S] : k \in 0..n}

----------------------------------------------------------------------------
(* Credentials (google.oauth2.credentials.Credentials as the code uses     *)
(* it): token present or not, expired or not, refresh_token present or     *)
(* not; "issued" tells a stored credential from a refreshed or a newly     *)
(* consented one.                                                          *)

Credential == [token : BOOLEAN, expired : BOOLEAN, refresh_token : BOOLEAN,
               issued : {"stored", "refresh", "consent"}]

\* creds.valid: a token is present and it has not expired
Valid(c) == c.token /\ ~c.expired

\* creds.to_json(): the serialized form written to TOKEN_JSON
ToJson(c) == [wellformed |-> TRUE, token |-> c.token, expired |-> c.expired,
              refresh_token |-> c.refresh_token, issued |-> c.issued]

\* a token file that is not an authorized-user JSON document
CorruptContent == [wellformed |-> FALSE, token |-> FALSE, expired |-> FALSE,
                   refresh_token |-> FALSE, issued |-> "stored"]

\* Credentials.from_authorized_user_file on a well-formed file
FromAuthorizedUserFile(content) ==
    [token |-> content.token, expired |-> content.expired,
     refresh_token |-> content.refresh_token, issued |-> content.issued]

\* the token files a run can find: none, a corrupt one, any stored credential
TokenFiles ==
    {<<>>, <<CorruptContent>>} \cup
    {<<ToJson(c)>> : c \in {d \in Credential : d.issued = "stored"}}

----------------------------------------------------------------------------
(* GoogleDocsService._get_credentials                                      *)

\* variant of NeedsNewCreds: the test of creds.valid is inverted
NeedsNewCredsInverted(cr) == cr = <<>> \/ Valid(cr[1])

\* line 85: if not creds or not creds.valid
NeedsNewCreds(cr) == cr = <<>> \/ ~Valid(cr[1])

\* variant of CanRefresh: an expired credential is refreshed whether or not
\* it has a refresh token
CanRefreshExpired(cr) == cr # <<>> /\ cr[1].expired

\* line 87: if creds and creds.expired and creds.refresh_token
CanRefresh(cr) == cr # <<>> /\ cr[1].expired /\ cr[1].refresh_token

\* variant of Refreshed: the refresh leaves the expired token in place
RefreshedStillExpired(c) == [c EXCEPT !.issued = "refresh"]

\* creds.refresh(Request()) succeeded: a fresh access token, same refresh token
Refreshed(c) == [token |-> TRUE, expired |-> FALSE,
                 refresh_token |-> c.refresh_token, issued |-> "refresh"]

\* flow.run_local_server(port=0) succeeded: a newly consented credential
Consented == {[token |-> TRUE, expired |-> FALSE, refresh_token |-> r,
               issued |-> "consent"] : r \in BOOLEAN}

\* lines 78-87: load the token file when it exists, then pick the branch.
\* from_authorized_user_file raises ValueError on a file it cannot parse and
\* nothing in _get_credentials catches it.
LoadToken ==
    /\ pc = "get_credentials"
    /\ IF token_file # <<>> /\ ~token_file[1].wellformed
       THEN /\ pc' = "raised"
            /\ error' = "ValueError"
            /\ creds' = <<>>
       ELSE /\ creds' = IF token_file # <<>>
                        THEN <<FromAuthorizedUserFile(token_file[1])>>
                        ELSE <<>>
            /\ pc' = IF NeedsNewCreds(creds')
                     THEN IF CanRefresh(creds') THEN "refresh" ELSE "flow"
                     ELSE "creds_returned"
            /\ error' = error
    /\ UNCHANGED <<token_file, token_file0, refresh_calls, flow_calls,
                   token_writes>>
    /\ UNCHANGED <<cleanVars, docVars, pipeVars, mainVars>>

\* line 89, the token endpoint answers
RefreshOk ==
    /\ pc = "refresh"
    /\ refresh_calls' = refresh_calls + 1
    /\ creds' = <<Refreshed(creds[1])>>
    /\ pc' = "write_token"
    /\ UNCHANGED <<error, token_file, token_file0, flow_calls, token_writes>>
    /\ UNCHANGED <<cleanVars, docVars, pipeVars, mainVars>>

\* variant of RefreshFail: the error is logged and the expired credential
\* is returned
RefreshFailIgnored ==
    /\ pc = "refresh"
    /\ refresh_calls' = refresh_calls + 1
    /\ pc' = "creds_returned"
    /\ error' = "RefreshError"
    /\ UNCHANGED <<creds, token_file, token_file0, flow_calls, token_writes>>
    /\ UNCHANGED <<cleanVars, docVars, pipeVars, mainVars>>

\* line 89, creds.refresh raises
RefreshFail ==
    /\ pc = "refresh"
    /\ refresh_calls' = refresh_calls + 1
    /\ pc' = "raised"
    /\ error' = "RefreshError"
    /\ UNCHANGED <<creds, token_file, token_file0, flow_calls, token_writes>>
    /\ UNCHANGED <<cleanVars, docVars, pipeVars, mainVars>>

\* lines 92-94, the user consents
FlowOk ==
    /\ pc = "flow"
    /\ flow_calls' = flow_calls + 1
    /\ \E c \in Consented : creds' = <<c>>
    /\ pc' = "write_token"
    /\ UNCHANGED <<error, token_file, token_file0, refresh_calls,
                   token_writes>>
    /\ UNCHANGED <<cleanVars, docVars, pipeVars, mainVars>>

\* lines 92-94, the client secret cannot be read or the flow does not complete
FlowFail ==
    /\ pc = "flow"
    /\ flow_calls' = flow_calls + 1
    /\ pc' = "raised"
    /\ error' = "FlowError"
    /\ UNCHANGED <<creds, token_file, token_file0, refresh_calls,
                   token_writes>>
    /\ UNCHANGED <<cleanVars, docVars, pipeVars, mainVars>>

\* variant of WriteToken: the credential is returned without being persisted
ReturnWithoutWrite ==
    /\ pc = "write_token"
    /\ pc' = "creds_returned"
    /\ UNCHANGED <<error, authVars, cleanVars, docVars, pipeVars, mainVars>>

\* lines 96-99: token_path.write_text(creds.to_json()); return creds
WriteToken ==
    /\ pc = "write_token"
    /\ token_file' = <<ToJson(creds[1])>>
    /\ token_writes' = token_writes + 1
    /\ pc' = "creds_returned"
    /\ UNCHANGED <<error, creds, token_file0, refresh_calls, flow_calls>>
    /\ UNCHANGED <<cleanVars, docVars, pipeVars, mainVars>>

GetCredentials ==
    LoadToken \/ RefreshOk \/ RefreshFail \/ FlowOk \/ FlowFail \/ WriteToken

----------------------------------------------------------------------------
(* Texts.  A transcription is held as the list of indivisible chunks that  *)
(* TextWrapper._split makes of it: words (or the pieces of a hyphenated    *)
(* word) and runs of whitespace, each with its length in characters.  Two  *)
(* runs of whitespace are never adjacent; no chunk is empty; a word has no *)
(* hyphen except at its end.                                               *)

TokenLens == {1, 1999, 2500, 5000}

Token == [ws : BOOLEAN, len : TokenLens]

Word(n)  == [ws |-> FALSE, len |-> n]
Space(n) == [ws |-> TRUE, len |-> n]

Texts == {t \in SeqsUpTo(Token, MaxTokens) :
            \A k \in 1..(Len(t) - 1) : ~(t[k].ws /\ t[k + 1].ws)}

\* variant of IsBlank: whitespace counts as text
IsBlankOnlyIfEmpty(c) == c.len = 0

\* chunk.strip() == ''
IsBlank(c) == c.ws \/ c.len = 0

\* the inner loop of _wrap_chunks: take chunks while they fit on the line
RECURSIVE FillLine(_, _, _)
FillLine(chs, cur_line, width) ==
    IF chs # <<>> /\ SumLen(cur_line) + Head(chs).len <= width
    THEN FillLine(Tail(chs), Append(cur_line, Head(chs)), width)
    ELSE [chunks |-> chs, cur_line |-> cur_line]

\* variant of HandleLongWord: what does not fit of the long chunk is lost
HandleLongWordTruncate(chs, cur_line, width) ==
    LET space_left == width - SumLen(cur_line)
        chunk == Head(chs)
    IN  [chunks   |-> Tail(chs),
         cur_line |-> Append(cur_line, [ws |-> chunk.ws, len |-> space_left])]

\* variant of HandleLongWord: break_long_words is off, the long chunk is
\* kept whole and gets a line of its own
HandleLongWordWhole(chs, cur_line, width) ==
    IF cur_line = <<>>
    THEN [chunks |-> Tail(chs), cur_line |-> <<Head(chs)>>]
    ELSE [chunks |-> chs, cur_line |-> cur_line]

\* _handle_long_word with break_long_words: cut the chunk at the room left
HandleLongWord(chs, cur_line, width) ==
    LET space_left == width - SumLen(cur_line)
        chunk == Head(chs)
    IN  [chunks   |-> <<[ws |-> chunk.ws, len |-> chunk.len - space_left]>>
                      \o Tail(chs),
         cur_line |-> Append(cur_line, [ws |-> chunk.ws, len |-> space_left])]

\* _wrap_chunks with the defaults of textwrap.wrap (drop_whitespace,
\* break_long_words, no indent, no max_lines); a line is the list of the
\* pieces joined into it
RECURSIVE WrapChunks(_, _, _)
WrapChunks(chs, lines, width) ==
    IF chs = <<>> THEN lines
    ELSE LET c1  == IF IsBlank(Head(chs)) /\ lines # <<>>
                    THEN Tail(chs) ELSE chs
             f   == FillLine(c1, <<>>, width)
             h   == IF f.chunks # <<>> /\ Head(f.chunks).len > width
                    THEN HandleLongWord(f.chunks, f.cur_line, width)
                    ELSE f
             n   == Len(h.cur_line)
             cur == IF n > 0 /\ IsBlank(h.cur_line[n])
                    THEN SubSeq(h.cur_line, 1, n - 1)
                    ELSE h.cur_line
         IN  WrapChunks(h.chunks,
                        IF cur # <<>> THEN Append(lines, cur) ELSE lines,
                        width)

\* textwrap.wrap(text, width)
Wrap(t, width) == WrapChunks(t, <<>>, width)

\* the texts the completion provider answers with: lists of fragments
Responses == {<<"x">>, <<"y", "\n", "z">>}

\* '\n'.join(parts)
RECURSIVE JoinNewline(_)
JoinNewline(parts) ==
    IF parts = <<>> THEN <<>>
    ELSE IF Len(parts) = 1 THEN parts[1]
    ELSE parts[1] \o <<"\n">> \o JoinNewline(Tail(parts))

\* one entry of the log of provider calls
Call(op, file, doc) == [op |-> op, file |-> file, doc |-> doc]

----------------------------------------------------------------------------
(* TranscriptionService.clean_text                                         *)

\* lines 49-51: split the text, start with no cleaned chunk
CleanSplit ==
    /\ pc = "clean_text"
    /\ chunks' = Wrap(text, GPT_CHUNK_SIZE)
    /\ cleaned_chunks' = <<>>
    /\ clean_calls' = <<>>
    /\ clean_result' = <<>>
    /\ pc' = "clean_loop"
    /\ UNCHANGED <<error, text>>
    /\ UNCHANGED <<authVars, docVars, pipeVars, mainVars>>

\* one entry of the history of completion calls
CleanCall(chunk, ok, response) ==
    [chunk |-> chunk, ok |-> ok, response |-> response]

\* variant of Collect: the newest response is put first
CollectFront(cleaned, response) == <<response>> \o cleaned

\* line 62: cleaned_chunks.append(response...content)
Collect(cleaned, response) == Append(cleaned, response)

\* lines 53-62: the completion call for the next chunk answers
CleanChunkOk ==
    /\ pc = "clean_loop"
    /\ chunks # <<>>
    /\ \E response \in Responses :
          /\ cleaned_chunks' = Collect(cleaned_chunks, response)
          /\ clean_calls' = Append(clean_calls,
                                   CleanCall(Head(chunks), TRUE, response))
    /\ calls' = Append(calls, Call("clean", idx, 0))
    /\ chunks' = Tail(chunks)
    /\ UNCHANGED <<pc, error, text, clean_result>>
    /\ UNCHANGED <<authVars, docVars, mainVars>>
    /\ UNCHANGED <<files, output_title, doc_info, results, idx,
                   clean_transcription, formatted_text, appended, retval>>

\* variant of CleanChunkFail: the error is logged and the loop goes on
CleanChunkSkip ==
    /\ pc = "clean_loop"
    /\ chunks # <<>>
    /\ clean_calls' = Append(clean_calls,
                             CleanCall(Head(chunks), FALSE, <<>>))
    /\ calls' = Append(calls, Call("clean", idx, 0))
    /\ chunks' = Tail(chunks)
    /\ error' = "CleanupError"
    /\ UNCHANGED <<pc, text, cleaned_chunks, clean_result>>
    /\ UNCHANGED <<authVars, docVars, mainVars>>
    /\ UNCHANGED <<files, output_title, doc_info, results, idx,
                   clean_transcription, formatted_text, appended, retval>>

\* lines 63-65: the completion call raises; logged and raised again
CleanChunkFail ==
    /\ pc = "clean_loop"
    /\ chunks # <<>>
    /\ clean_calls' = Append(clean_calls,
                             CleanCall(Head(chunks), FALSE, <<>>))
    /\ calls' = Append(calls, Call("clean", idx, 0))
    /\ pc' = "raised"
    /\ error' = "CleanupError"
    /\ UNCHANGED <<text, chunks, cleaned_chunks, clean_result>>
    /\ UNCHANGED <<authVars, docVars, mainVars>>
    /\ UNCHANGED <<files, output_title, doc_info, results, idx,
                   clean_transcription, formatted_text, appended, retval>>

\* line 67: return '\n'.join(cleaned_chunks)
CleanReturn ==
    /\ pc = "clean_loop"
    /\ chunks = <<>>
    /\ clean_result' = <<JoinNewline(cleaned_chunks)>>
    /\ pc' = "cleaned"
    /\ UNCHANGED <<error, text, chunks, cleaned_chunks, clean_calls>>
    /\ UNCHANGED <<authVars, docVars, pipeVars, mainVars>>

CleanText == CleanSplit \/ CleanChunkOk \/ CleanChunkFail \/ CleanReturn

----------------------------------------------------------------------------
(* The document provider.  The body of a document is its text, a list of   *)
(* fragments that always ends with the final newline of the last           *)
(* paragraph; the fragment at position k has index k.  Len counts          *)
(* fragments where the provider counts characters.                         *)

NewDocument(title) == [title |-> title, body |-> <<"\n">>]

\* document['body']['content'][-1]['endIndex']
EndIndex(body) == Len(body) + 1

\* insertText: the text goes in front of the fragment at the index
InsertText(body, index, t) ==
    SubSeq(body, 1, index - 1) \o t \o SubSeq(body, index, Len(body))

\* line 105
DocUrl(doc_id) == <<"https://docs.google.com/document/d/", doc_id, "/edit">>

----------------------------------------------------------------------------
(* AudioProcessor.process_files                                            *)

FileNames == {"a.mp3", "b.mp3"}

\* datetime.datetime.now().strftime(DEFAULT_DATE_FORMAT)
Now == "2026-11-01 12:00:00"

\* os.stat(file_path).st_mtime, formatted with DEFAULT_DATE_FORMAT
MTime(file) == IF file = "a.mp3" THEN "2026-10-30 08:15:00"
                                 ELSE "2026-10-31 17:40:00"

\* the transcriptions Whisper answers with: nothing, whitespace only, a
\* short text (one chunk) and a long one (two chunks)
Transcripts == {<<>>, <<Space(1)>>, <<Word(1)>>, <<Word(2500)>>}

\* lines 143-144
ResolveTitle(title) == IF title = "" THEN Now ELSE title

\* line 153
FileMetadata(file) == <<file, " ", MTime(file)>>

\* variant of FormatText: the header is the file name alone
FormatTextNoTime(file, cleaned) ==
    <<file>> \o <<"\n", "\n">> \o cleaned \o <<"\n", "---", "\n", "\n">>

\* lines 160-161
FormatText(file, cleaned) ==
    FileMetadata(file) \o <<"\n", "\n">> \o cleaned \o <<"\n", "---", "\n", "\n">>

\* variant of InsertIndex: the end index itself is used
InsertIndexAtEnd(end) == end

\* line 115
InsertIndex(end) == end - 1

\* lines 164-169
ProcessingResult(file, cleaned, info) ==
    [file |-> file, transcription_text |-> cleaned,
     doc_id |-> info.id, doc_url |-> info.url]

\* variant of RecordResult: the newest result is put first
RecordResultFront(rs, r) == <<r>> \o rs

\* line 164: results.append(...)
RecordResult(rs, r) == Append(rs, r)

\* lines 143-148, documents().create answers
CreateDocumentOk ==
    /\ pc = "process_files"
    /\ docs' = Append(docs, NewDocument(ResolveTitle(output_title)))
    /\ doc_info' = <<[id |-> Len(docs'), url |-> DocUrl(Len(docs'))]>>
    /\ calls' = Append(calls, Call("create", 0, Len(docs')))
    /\ results' = <<>>
    /\ idx' = 1
    /\ pc' = "loop"
    /\ UNCHANGED <<error, end_index, files, output_title,
                   clean_transcription, formatted_text, appended, retval>>
    /\ UNCHANGED <<authVars, cleanVars, mainVars>>

\* lines 143-147, documents().create raises
CreateDocumentFail ==
    /\ pc = "process_files"
    /\ calls' = Append(calls, Call("create", 0, 0))
    /\ pc' = "raised"
    /\ error' = "DocumentError"
    /\ UNCHANGED <<files, output_title, doc_info, results, idx,
                   clean_transcription, formatted_text, appended, retval>>
    /\ UNCHANGED <<authVars, cleanVars, docVars, mainVars>>

\* lines 150-157, the transcription of the next file answers
TranscribeOk ==
    /\ pc = "loop"
    /\ idx <= Len(files)
    /\ \E t \in Transcripts : text' = t
    /\ calls' = Append(calls, Call("transcribe", idx, 0))
    /\ pc' = "clean_text"
    /\ UNCHANGED <<error, chunks, cleaned_chunks, clean_calls, clean_result>>
    /\ UNCHANGED <<files, output_title, doc_info, results, idx,
                   clean_transcription, formatted_text, appended, retval>>
    /\ UNCHANGED <<authVars, docVars, mainVars>>

\* variant of TranscribeFail: the error is logged and the file is skipped
TranscribeSkip ==
    /\ pc = "loop"
    /\ idx <= Len(files)
    /\ calls' = Append(calls, Call("transcribe", idx, 0))
    /\ idx' = idx + 1
    /\ error' = "TranscriptionError"
    /\ UNCHANGED <<pc, files, output_title, doc_info, results,
                   clean_transcription, formatted_text, appended, retval>>
    /\ UNCHANGED <<authVars, cleanVars, docVars, mainVars>>

\* lines 150-156, opening the file or the transcription raises
TranscribeFail ==
    /\ pc = "loop"
    /\ idx <= Len(files)
    /\ calls' = Append(calls, Call("transcribe", idx, 0))
    /\ pc' = "raised"
    /\ error' = "TranscriptionError"
    /\ UNCHANGED <<files, output_title, doc_info, results, idx,
                   clean_transcription, formatted_text, appended, retval>>
    /\ UNCHANGED <<authVars, cleanVars, docVars, mainVars>>

\* lines 157-162 and 110-111: keep the cleaned text, format the block,
\* documents().get answers
FetchOk ==
    /\ pc = "cleaned"
    /\ clean_transcription' = clean_result[1]
    /\ formatted_text' = FormatText(files[idx], clean_transcription')
    /\ end_index' = EndIndex(docs[doc_info[1].id].body)
    /\ calls' = Append(calls, Call("get", idx, doc_info[1].id))
    /\ pc' = "insert"
    /\ UNCHANGED <<error, docs, files, output_title, doc_info, results, idx,
                   appended, retval>>
    /\ UNCHANGED <<authVars, cleanVars, mainVars>>

\* lines 157-162 and 110: documents().get raises
FetchFail ==
    /\ pc = "cleaned"
    /\ clean_transcription' = clean_result[1]
    /\ formatted_text' = FormatText(files[idx], clean_transcription')
    /\ calls' = Append(calls, Call("get", idx, doc_info[1].id))
    /\ pc' = "raised"
    /\ error' = "DocumentError"
    /\ UNCHANGED <<files, output_title, doc_info, results, idx, appended,
                   retval>>
    /\ UNCHANGED <<authVars, cleanVars, docVars, mainVars>>

\* variant of InsertOk: every file gets a document of its own
InsertOkOwnDocument ==
    /\ pc = "insert"
    /\ LET id == Len(docs) + 1
           info == [id |-> id, url |-> DocUrl(id)]
       IN  /\ docs' = Append(docs,
                        [title |-> ResolveTitle(output_title),
                         body  |-> formatted_text \o <<"\n">>])
           /\ calls' = calls \o <<Call("create", 0, id),
                                   Call("batchUpdate", idx, id)>>
           /\ results' = RecordResult(results,
                           ProcessingResult(files[idx], clean_transcription,
                                            info))
    /\ appended' = Append(appended, formatted_text)
    /\ idx' = idx + 1
    /\ pc' = "loop"
    /\ UNCHANGED <<error, end_index, files, output_title, doc_info,
                   clean_transcription, formatted_text, retval>>
    /\ UNCHANGED <<authVars, cleanVars, mainVars>>

\* lines 113-124 and 164-169: batchUpdate answers, the result is recorded
InsertOk ==
    /\ pc = "insert"
    /\ LET id == doc_info[1].id
       IN  docs' = [docs EXCEPT ![id].body =
                       InsertText(@, InsertIndex(end_index), formatted_text)]
    /\ appended' = Append(appended, formatted_text)
    /\ calls' = Append(calls, Call("batchUpdate", idx, doc_info[1].id))
    /\ results' = RecordResult(results,
                    ProcessingResult(files[idx], clean_transcription,
                                     doc_info[1]))
    /\ idx' = idx + 1
    /\ pc' = "loop"
    /\ UNCHANGED <<error, end_index, files, output_title, doc_info,
                   clean_transcription, formatted_text, retval>>
    /\ UNCHANGED <<authVars, cleanVars, mainVars>>

\* variant of InsertFail: the error is logged, the result is recorded and
\* the loop goes on
InsertFailRecorded ==
    /\ pc = "insert"
    /\ calls' = Append(calls, Call("batchUpdate", idx, doc_info[1].id))
    /\ results' = RecordResult(results,
                    ProcessingResult(files[idx], clean_transcription,
                                     doc_info[1]))
    /\ idx' = idx + 1
    /\ pc' = "loop"
    /\ UNCHANGED <<error, files, output_title, doc_info,
                   clean_transcription, formatted_text, appended, retval>>
    /\ UNCHANGED <<authVars, cleanVars, docVars, mainVars>>

\* lines 120-123: batchUpdate raises
InsertFail ==
    /\ pc = "insert"
    /\ calls' = Append(calls, Call("batchUpdate", idx, doc_info[1].id))
    /\ pc' = "raised"
    /\ error' = "DocumentError"
    /\ UNCHANGED <<files, output_title, doc_info, results, idx,
                   clean_transcription, formatted_text, appended, retval>>
    /\ UNCHANGED <<authVars, cleanVars, docVars, mainVars>>

\* line 171: the loop is over, return results
ReturnResults ==
    /\ pc = "loop"
    /\ idx > Len(files)
    /\ retval' = <<results>>
    /\ pc' = "returned"
    /\ UNCHANGED <<error, files, output_title, doc_info, results, idx,
                   clean_transcription, formatted_text, appended, calls>>
    /\ UNCHANGED <<authVars, cleanVars, docVars, mainVars>>

ProcessFiles ==
    \/ CreateDocumentOk \/ CreateDocumentFail
    \/ TranscribeOk \/ TranscribeFail
    \/ FetchOk \/ FetchFail
    \/ InsertOk \/ InsertFail
    \/ ReturnResults

----------------------------------------------------------------------------
(* main, and the constructors between main and process_files              *)

\* variant of FilesToProcess: a listed file that does not exist makes the
\* whole list invalid
FilesToProcessAllOrNone(listed, existing) ==
    IF \A k \in 1..Len(listed) : listed[k] \in existing THEN listed ELSE <<>>

\* lines 212-218: the listed files that exist, in the order given
RECURSIVE FilesToProcess(_, _)
FilesToProcess(listed, existing) ==
    IF listed = <<>> THEN <<>>
    ELSE IF Head(listed) \in existing
         THEN <<Head(listed)>> \o FilesToProcess(Tail(listed), existing)
         ELSE FilesToProcess(Tail(listed), existing)

Args == [directory_exists : BOOLEAN,
         files : SeqsUpTo(FileNames, MaxFiles) \ {<<>>},
         existing : SUBSET FileNames,
         output : {"", "Memos"}]

\* lines 201-226: validate the directory and the files, load the
\* configuration and start constructing the processor
MainValidate ==
    /\ pc = "main"
    /\ IF ~args.directory_exists
          \/ FilesToProcess(args.files, args.existing) = <<>>
       THEN /\ exit_code' = 1
            /\ pc' = "exit"
            /\ UNCHANGED <<files, output_title>>
       ELSE /\ files' = FilesToProcess(args.files, args.existing)
            /\ output_title' = args.output
            /\ pc' = "get_credentials"
            /\ UNCHANGED exit_code
    /\ UNCHANGED <<error, args, doc_info, results, idx, clean_transcription,
                   formatted_text, appended, calls, retval>>
    /\ UNCHANGED <<authVars, cleanVars, docVars>>

\* lines 72-74, 134 and 227: the credentials are there, the services are
\* built and main calls process_files
ServiceInit ==
    /\ pc = "creds_returned"
    /\ pc' = "process_files"
    /\ UNCHANGED <<error, authVars, cleanVars, docVars, pipeVars, mainVars>>

\* lines 233-238
MainSuccess ==
    /\ pc = "returned"
    /\ exit_code' = 0
    /\ pc' = "exit"
    /\ UNCHANGED <<error, args, authVars, cleanVars, docVars, pipeVars>>

\* variant of MainExcept: the error is logged and main reports success
MainExceptSuccess ==
    /\ pc = "raised"
    /\ exit_code' = 0
    /\ pc' = "exit"
    /\ UNCHANGED <<error, args, authVars, cleanVars, docVars, pipeVars>>

\* lines 240-242
MainExcept ==
    /\ pc = "raised"
    /\ exit_code' = 1
    /\ pc' = "exit"
    /\ UNCHANGED <<error, args, authVars, cleanVars, docVars, pipeVars>>

Main == MainValidate \/ ServiceInit \/ MainSuccess \/ MainExcept

----------------------------------------------------------------------------
(* Specifications                                                          *)

NoArgs == [directory_exists |-> TRUE, files |-> <<"a.mp3">>,
           existing |-> {"a.mp3"}, output |-> ""]

IdleAuth ==
    /\ token_file = <<>> /\ token_file0 = <<>> /\ creds = <<>>
    /\ refresh_calls = 0 /\ flow_calls = 0 /\ token_writes = 0

IdleClean ==
    /\ text = <<>> /\ chunks = <<>> /\ cleaned_chunks = <<>>
    /\ clean_calls = <<>> /\ clean_result = <<>>

IdlePipe ==
    /\ docs = <<>> /\ end_index = 0
    /\ files = <<>> /\ output_title = "" /\ doc_info = <<>>
    /\ results = <<>> /\ idx = 0 /\ clean_transcription = <<>>
    /\ formatted_text = <<>> /\ appended = <<>> /\ calls = <<>>
    /\ retval = <<>>

\* one run of the program: main is entered with some arguments and finds
\* some token file
Init ==
    /\ pc = "main"
    /\ error = ""
    /\ args \in Args
    /\ exit_code = -1
    /\ token_file \in TokenFiles
    /\ token_file0 = token_file
    /\ creds = <<>>
    /\ refresh_calls = 0 /\ flow_calls = 0 /\ token_writes = 0
    /\ IdleClean
    /\ IdlePipe

Next == Main \/ GetCredentials \/ ProcessFiles \/ CleanText

Spec == Init /\ [][Next]_vars

\* clean_text called on its own with any text
InitClean ==
    /\ pc = "clean_text"
    /\ error = ""
    /\ args = NoArgs
    /\ exit_code = -1
    /\ IdleAuth
    /\ text \in Texts
    /\ chunks = <<>> /\ cleaned_chunks = <<>>
    /\ clean_calls = <<>> /\ clean_result = <<>>
    /\ IdlePipe

SpecClean == InitClean /\ [][CleanText]_vars

----------------------------------------------------------------------------
(* GoogleDocsService.append_text called by two appenders on one document.  *)
(* Each appender has its own locals: in this specification pc, idx,        *)
(* formatted_text and end_index hold one value per appender, and the file  *)
(* of an entry of calls is the appender that made the call.                *)

Appenders == {1, 2}

\* the n-th text appender w appends: a block of process_files
AppenderText(w, n) ==
    FormatText(IF w = 1 THEN "a.mp3" ELSE "b.mp3", [k \in 1..n |-> "x"])

\* lines 108-111: documents().get answers, end_index is read
AppendTextGet(w) ==
    /\ pc[w] = "get"
    /\ idx[w] <= MaxAppends
    /\ formatted_text' = [formatted_text EXCEPT ![w] = AppenderText(w, idx[w])]
    /\ end_index' = [end_index EXCEPT ![w] = EndIndex(docs[doc_info[1].id].body)]
    /\ calls' = Append(calls, Call("get", w, doc_info[1].id))
    /\ pc' = [pc EXCEPT ![w] = "batchUpdate"]
    /\ UNCHANGED <<error, docs, files, output_title, doc_info, results, idx,
                   clean_transcription, appended, retval>>
    /\ UNCHANGED <<authVars, cleanVars, mainVars>>

\* variant of AppendTextBatchUpdate: the provider appends at the end of the
\* document as it is when the request arrives
AppendTextAtomic(w) ==
    /\ pc[w] = "batchUpdate"
    /\ LET id == doc_info[1].id
       IN  docs' = [docs EXCEPT ![id].body =
                       InsertText(@, InsertIndex(EndIndex(@)),
                                  formatted_text[w])]
    /\ appended' = Append(appended, formatted_text[w])
    /\ calls' = Append(calls, Call("batchUpdate", w, doc_info[1].id))
    /\ idx' = [idx EXCEPT ![w] = @ + 1]
    /\ pc' = [pc EXCEPT ![w] = "get"]
    /\ UNCHANGED <<error, end_index, files, output_title, doc_info, results,
                   clean_transcription, formatted_text, retval>>
    /\ UNCHANGED <<authVars, cleanVars, mainVars>>

\* lines 113-124: batchUpdate inserts the text at the index read before
AppendTextBatchUpdate(w) ==
    /\ pc[w] = "batchUpdate"
    /\ LET id == doc_info[1].id
       IN  docs' = [docs EXCEPT ![id].body =
                       InsertText(@, InsertIndex(end_index[w]),
                                  formatted_text[w])]
    /\ appended' = Append(appended, formatted_text[w])
    /\ calls' = Append(calls, Call("batchUpdate", w, doc_info[1].id))
    /\ idx' = [idx EXCEPT ![w] = @ + 1]
    /\ pc' = [pc EXCEPT ![w] = "get"]
    /\ UNCHANGED <<error, end_index, files, output_title, doc_info, results,
                   clean_transcription, formatted_text, retval>>
    /\ UNCHANGED <<authVars, cleanVars, mainVars>>

\* two appenders about to append to the same new document
InitAppenders ==
    /\ pc = [w \in Appenders |-> "get"]
    /\ error = ""
    /\ args = NoArgs
    /\ exit_code = -1
    /\ IdleAuth
    /\ IdleClean
    /\ docs = <<NewDocument(Now)>>
    /\ doc_info = <<[id |-> 1, url |-> DocUrl(1)]>>
    /\ end_index = [w \in Appenders |-> 0]
    /\ formatted_text = [w \in Appenders |-> <<>>]
    /\ idx = [w \in Appenders |-> 1]
    /\ files = <<>> /\ output_title = "" /\ results = <<>>
    /\ clean_transcription = <<>> /\ appended = <<>> /\ calls = <<>>
    /\ retval = <<>>

NextAppenders ==
    \E w \in Appenders : AppendTextGet(w) \/ AppendTextBatchUpdate(w)

SpecAppenders == InitAppenders /\ [][NextAppenders]_vars

----------------------------------------------------------------------------
(* Properties                                                              *)

AuthErrors == {"ValueError", "RefreshError", "FlowError"}

\* main passed validation, so the processor is being or has been constructed
Validated == files # <<>>

\* _get_credentials is over, by return or by raise
AuthDone ==
    /\ Validated
    /\ pc \notin {"get_credentials", "refresh", "flow", "write_token"}

\* _get_credentials returned a credential
AuthReturned == AuthDone /\ error \notin AuthErrors

\* the formatted blocks of the first n files, with the cleaned texts of rs
RECURSIVE Blocks(_, _, _)
Blocks(fs, rs, n) ==
    IF n = 0 THEN <<>>
    ELSE Blocks(fs, rs, n - 1) \o FormatText(fs[n], rs[n].transcription_text)

\* the body of the document of the run
RunBody == docs[doc_info[1].id].body

\* an error was raised while the file at position idx was processed
FileFailed == error # "" /\ idx >= 1

\* C1: when transcription, cleanup or append fails for file N the run stops
\* there: the document holds exactly the blocks of files 1..N-1, no provider
\* call was made for a later file, and the caller gets the error and no
\* result list.
C1_AbortOnFileFailure ==
    FileFailed =>
        /\ pc \in {"raised", "exit"}
        /\ idx <= Len(files)
        /\ Len(results) = idx - 1
        /\ RunBody = Blocks(files, results, idx - 1) \o <<"\n">>
        /\ \A k \in 1..Len(calls) : calls[k].file <= idx
        /\ calls[Len(calls)].file = idx
        /\ retval = <<>>
        /\ pc = "exit" => exit_code = 1

\* the second file failed after the first was appended with a cleaned text
C1_Witness ==
    /\ FileFailed /\ pc = "raised"
    /\ idx = 2
    /\ Len(RunBody) > 1
    /\ results[1].transcription_text # <<>>

\* C2: when every provider call succeeds, process_files returns one result
\* per input file and the file fields are in the order of the input list.
C2_ResultsInInputOrder ==
    retval # <<>> =>
        /\ error = ""
        /\ Len(retval[1]) = Len(files)
        /\ \A k \in 1..Len(files) : retval[1][k].file = files[k]

\* two different files were processed and returned
C2_Witness ==
    /\ retval # <<>>
    /\ Len(retval[1]) = 2
    /\ files[1] # files[2]

\* C3: one document is created per run, by the first provider call of
\* process_files; every result carries the id and the url of that document
\* and every fetch and insert is addressed to it.
C3_SingleDocument ==
    /\ Cardinality({k \in 1..Len(calls) : calls[k].op = "create"}) <= 1
    /\ calls # <<>> => calls[1].op = "create"
    /\ Len(docs) <= 1
    /\ doc_info # <<>> =>
          /\ Len(docs) = 1
          /\ doc_info[1] = [id |-> 1, url |-> DocUrl(1)]
          /\ calls[1].doc = doc_info[1].id
          /\ \A k \in 1..Len(results) :
                /\ results[k].doc_id = doc_info[1].id
                /\ results[k].doc_url = doc_info[1].url
          /\ \A k \in 1..Len(calls) :
                calls[k].op \in {"get", "batchUpdate"}
                    => calls[k].doc = doc_info[1].id
    /\ retval # <<>> => doc_info # <<>> /\ retval[1] = results

\* a run over two files returned, with one document holding both appends
C3_Witness ==
    /\ retval # <<>>
    /\ Len(results) = 2
    /\ Len(docs) = 1
    /\ Cardinality({k \in 1..Len(calls) : calls[k].op = "batchUpdate"}) = 2

\* C4: after N appends in sequence to the document, with no other writer,
\* its content is the N texts in call order; each insert goes to end_index
\* - 1 of the document as it was just fetched.
C4_SequentialAppendsConcatenate ==
    doc_info # <<>> =>
        /\ RunBody = Concat(appended) \o <<"\n">>
        /\ pc = "insert" =>
              /\ end_index = EndIndex(RunBody)
              /\ InsertIndex(end_index) = Len(RunBody)

\* two appends of different texts were made
C4_Witness ==
    /\ Len(appended) = 2
    /\ appended[1] # appended[2]
    /\ RunBody = appended[1] \o appended[2] \o <<"\n">>

\* the chunks and the answers of the completion calls made so far
ChunksSent == [k \in 1..Len(clean_calls) |-> clean_calls[k].chunk]
Answers    == [k \in 1..Len(clean_calls) |-> clean_calls[k].response]

\* one completion call per chunk of textwrap.wrap, in chunk order, and the
\* answers joined by one newline in that order
OneCallPerChunkJoined ==
    /\ pc \in {"clean_loop", "cleaned"} =>
          /\ ChunksSent \o chunks = Wrap(text, GPT_CHUNK_SIZE)
          /\ cleaned_chunks = Answers
    /\ pc = "cleaned" =>
          /\ ChunksSent = Wrap(text, GPT_CHUNK_SIZE)
          /\ \A k \in 1..Len(clean_calls) : clean_calls[k].ok
          /\ clean_result = <<JoinNewline(Answers)>>

\* C5 as stated: every text of 5000 characters is cleaned with exactly 3
\* calls, and in general with one call per chunk, joined in chunk order
C5_FiveThousandCharsThreeCalls ==
    /\ OneCallPerChunkJoined
    /\ (pc = "cleaned" /\ SumLen(text) = 5000) => Len(clean_calls) = 3

\* C5: clean_text makes one completion call per chunk of
\* textwrap.wrap(text, 2000), in chunk order, and returns the answers joined
\* by one newline in that order; the calls are 3 for a text of 5000
\* characters that is one unbroken word.
C5_OneCallPerChunkJoined ==
    /\ OneCallPerChunkJoined
    /\ (pc = "cleaned" /\ text = <<Word(5000)>>) => Len(clean_calls) = 3

\* one word of 5000 characters was cleaned in 3 calls with different answers
C5_Witness ==
    /\ pc = "cleaned"
    /\ text = <<Word(5000)>>
    /\ Len(clean_calls) = 3
    /\ SumLen(clean_calls[1].chunk) = 2000
    /\ SumLen(clean_calls[3].chunk) = 1000
    /\ clean_calls[1].response # clean_calls[2].response
    /\ clean_result = <<clean_calls[1].response \o <<"\n">>
                        \o clean_calls[2].response \o <<"\n">>
                        \o clean_calls[3].response>>

\* C6: when the completion call of a chunk fails, clean_text fails as a
\* whole: the error is raised, nothing is returned and no call is made for
\* a later chunk.
C6_CleanFailsAsAWhole ==
    error = "CleanupError" =>
        /\ pc = "raised"
        /\ clean_result = <<>>
        /\ Len(clean_calls) = Len(cleaned_chunks) + 1
        /\ ~clean_calls[Len(clean_calls)].ok
        /\ \A k \in 1..(Len(clean_calls) - 1) : clean_calls[k].ok
        /\ ChunksSent = SubSeq(Wrap(text, GPT_CHUNK_SIZE), 1, Len(clean_calls))

\* the second of three or more chunks failed
C6_Witness ==
    /\ error = "CleanupError"
    /\ Len(cleaned_chunks) = 1
    /\ Len(Wrap(text, GPT_CHUNK_SIZE)) >= 3
    /\ Len(clean_calls) = 2

\* the credential stored in the token file when the run started
StoredCreds == FromAuthorizedUserFile(token_file0[1])

StoredWellFormed == token_file0 # <<>> /\ token_file0[1].wellformed

\* C7: with a valid, unexpired credential in the token file
\* _get_credentials makes no refresh and no consent flow and returns the
\* loaded credential as it is.
C7_ValidCredentialNoNetwork ==
    (StoredWellFormed /\ Valid(StoredCreds)) =>
        /\ refresh_calls = 0 /\ flow_calls = 0 /\ token_writes = 0
        /\ token_file = token_file0
        /\ pc \notin {"refresh", "flow", "write_token"}
        /\ error \notin AuthErrors
        /\ AuthDone => creds = <<StoredCreds>>

\* a valid stored credential was loaded and returned
C7_Witness ==
    /\ StoredWellFormed /\ Valid(StoredCreds)
    /\ pc = "creds_returned"
    /\ creds = <<StoredCreds>>

\* C8: with an expired credential that has a refresh token
\* _get_credentials makes one refresh call, no consent flow and one write
\* of the token file, and the credential it returns is valid.
C8_ExpiredCredentialRefreshedOnce ==
    (StoredWellFormed /\ StoredCreds.expired /\ StoredCreds.refresh_token) =>
        /\ flow_calls = 0
        /\ refresh_calls <= 1
        /\ token_writes <= refresh_calls
        /\ AuthDone => refresh_calls = 1
        /\ AuthReturned =>
              /\ token_writes = 1
              /\ creds # <<>> /\ Valid(creds[1])
              /\ creds[1].issued = "refresh"

\* an expired credential was refreshed, persisted and returned
C8_Witness ==
    /\ StoredWellFormed /\ StoredCreds.expired /\ StoredCreds.refresh_token
    /\ pc = "creds_returned"
    /\ refresh_calls = 1 /\ token_writes = 1
    /\ Valid(creds[1])

\* C9: a corrupt token file is treated as absent: _get_credentials does not
\* fail on it, it runs the consent flow and persists the new credential.
C9_CorruptTokenTreatedAsAbsent ==
    (token_file0 = <<CorruptContent>> /\ AuthDone) =>
        /\ error # "ValueError"
        /\ flow_calls = 1
        /\ AuthReturned =>
              /\ creds # <<>> /\ creds[1].issued = "consent"
              /\ token_file = <<ToJson(creds[1])>>

\* C10: the token file is overwritten with the serialized credential exactly
\* when a refresh or a consent flow was made and succeeded, and before
\* _get_credentials returns; when the refresh or the flow fails the error is
\* raised after that one attempt and the token file is as it was.
C10_TokenWrittenIffRenewed ==
    /\ token_writes <= 1
    /\ refresh_calls + flow_calls <= 1
    /\ token_writes = 0 => token_file = token_file0
    /\ token_writes = 1 =>
          /\ refresh_calls + flow_calls = 1
          /\ creds # <<>> /\ creds[1].issued \in {"refresh", "consent"}
          /\ token_file = <<ToJson(creds[1])>>
    /\ AuthReturned =>
          (token_writes = 1 <=> refresh_calls + flow_calls = 1)
    /\ error \in {"RefreshError", "FlowError"} =>
          /\ pc \in {"raised", "exit"}
          /\ refresh_calls + flow_calls = 1
          /\ token_writes = 0
          /\ token_file = token_file0

\* a consent flow succeeded and the new credential replaced the token file
\* by the time _get_credentials returned
C10_Witness ==
    /\ pc = "creds_returned"
    /\ flow_calls = 1
    /\ token_writes = 1
    /\ token_file = <<ToJson(creds[1])>>
    /\ token_file # token_file0

\* the chunks of the text being cleaned, sent or still to send
AllChunks == ChunksSent \o chunks

\* clean_text has split its text and has not failed
Splitting == pc \in {"clean_loop", "cleaned"}

\* the pieces of words in the lines, in order, each with the number of its
\* line
RECURSIVE WordPieces(_, _)
WordPieces(lines, n) ==
    IF n > Len(lines) THEN <<>>
    ELSE LET ps == SelectSeq(lines[n], LAMBDA c : ~c.ws /\ c.len > 0)
         IN  [k \in 1..Len(ps) |-> [len |-> ps[k].len, line |-> n]]
             \o WordPieces(lines, n + 1)

\* the lengths of the word chunks of the text whose characters ended up in
\* more than one line; -1 when the pieces do not add up to the word chunks
RECURSIVE SplitWords(_, _, _, _)
SplitWords(words, pieces, need, line) ==
    IF words = <<>> THEN (IF pieces = <<>> THEN {} ELSE {-1})
    ELSE IF pieces = <<>> THEN {-1}
    ELSE LET w == Head(words)
             p == Head(pieces)
             n == IF need = 0 THEN w.len ELSE need
             l == IF need = 0 THEN p.line ELSE line
         IN  IF p.len > n THEN {-1}
             ELSE (IF p.line # l THEN {w.len} ELSE {})
                  \cup (IF p.len = n
                        THEN SplitWords(Tail(words), Tail(pieces), 0, 0)
                        ELSE SplitWords(words, Tail(pieces), n - p.len, l))

SplitWordsOf(t, lines) ==
    SplitWords(SelectSeq(t, LAMBDA c : ~c.ws), WordPieces(lines, 1), 0, 0)

\* C11 as stated: every chunk has at most 2000 characters and no word is
\* split across two chunks
C11_BoundedAndNeverMidWord ==
    Splitting =>
        /\ \A k \in 1..Len(AllChunks) : SumLen(AllChunks[k]) <= GPT_CHUNK_SIZE
        /\ SplitWordsOf(text, AllChunks) = {}

\* C11: every chunk has between 1 and 2000 characters, and a chunk boundary
\* falls inside an indivisible piece of the text only when that piece is
\* longer than 2000 characters; shorter pieces are never cut.
C11_BoundedAndCutsOnlyLongPieces ==
    Splitting =>
        /\ \A k \in 1..Len(AllChunks) :
              /\ SumLen(AllChunks[k]) >= 1
              /\ SumLen(AllChunks[k]) <= GPT_CHUNK_SIZE
        /\ \A n \in SplitWordsOf(text, AllChunks) : n > GPT_CHUNK_SIZE

\* a short word and a word of 2500 characters: the long one is cut to fill
\* the first chunk, the short one is whole
C11_Witness ==
    /\ Splitting
    /\ text = <<Word(1), Space(1), Word(2500)>>
    /\ Len(AllChunks) = 2
    /\ SumLen(AllChunks[1]) = GPT_CHUNK_SIZE
    /\ SplitWordsOf(text, AllChunks) = {2500}

\* a text as runs of characters: adjacent chunks of a kind merged, empty
\* pieces left out
RECURSIVE Runs(_)
Runs(t) ==
    IF t = <<>> THEN <<>>
    ELSE LET r == Runs(Tail(t))
             c == Head(t)
         IN  IF c.len = 0 THEN r
             ELSE IF r # <<>> /\ r[1].ws = c.ws
                  THEN <<[ws |-> c.ws, len |-> c.len + r[1].len]>> \o Tail(r)
                  ELSE <<[ws |-> c.ws, len |-> c.len]>> \o r

\* the runs L of a chunk read off the front of the runs R of the text: all
\* runs but the last are whole, the last may stop inside a run of R
RECURSIVE MatchRuns(_, _)
MatchRuns(R, L) ==
    IF R = <<>> \/ R[1].ws # L[1].ws \/ R[1].len < L[1].len
    THEN [ok |-> FALSE, rest |-> R]
    ELSE IF Len(L) = 1
         THEN [ok |-> TRUE,
               rest |-> IF R[1].len = L[1].len THEN Tail(R)
                        ELSE <<[ws |-> R[1].ws, len |-> R[1].len - L[1].len]>>
                             \o Tail(R)]
         ELSE IF R[1].len # L[1].len
              THEN [ok |-> FALSE, rest |-> R]
              ELSE MatchRuns(Tail(R), Tail(L))

\* the whitespace of R in front of a chunk with runs L is passed over
SkipGap(R, L) ==
    IF R = <<>> \/ ~R[1].ws THEN R
    ELSE IF L[1].ws
         THEN (IF R[1].len >= L[1].len
               THEN <<[ws |-> TRUE, len |-> L[1].len]>> \o Tail(R)
               ELSE R)
         ELSE Tail(R)

\* the chunks as slices of the text, in order: ok when every chunk is a
\* slice and only whitespace lies before, between and after the slices;
\* mids counts the boundaries with word characters on both sides
RECURSIVE MatchLines(_, _, _)
MatchLines(R, lines, prev) ==
    IF lines = <<>>
    THEN [ok |-> R = <<>> \/ (Len(R) = 1 /\ R[1].ws), mids |-> 0]
    ELSE LET L == Runs(Head(lines))
         IN  IF L = <<>> THEN [ok |-> FALSE, mids |-> 0]
             ELSE LET mid == /\ ~L[1].ws
                             /\ R # <<>> /\ ~R[1].ws
                             /\ prev = "word"
                      m == MatchRuns(SkipGap(R, L), L)
                      r == MatchLines(m.rest, Tail(lines),
                                      IF L[Len(L)].ws THEN "ws" ELSE "word")
                  IN  [ok   |-> m.ok /\ r.ok,
                       mids |-> r.mids + (IF mid THEN 1 ELSE 0)]

Slices(t, lines) == MatchLines(Runs(t), lines, "start")

\* '\n'.join of the chunks as they are, the newline being one character of
\* whitespace
RECURSIVE Rejoin(_)
Rejoin(lines) ==
    IF lines = <<>> THEN <<>>
    ELSE IF Len(lines) = 1 THEN lines[1]
    ELSE lines[1] \o <<[ws |-> TRUE, len |-> 1]>> \o Rejoin(Tail(lines))

\* whitespace normalization: no whitespace at the ends, one character for
\* every run of whitespace
Collapse(t) ==
    LET r  == Runs(t)
        a  == IF r # <<>> /\ r[1].ws THEN Tail(r) ELSE r
        b  == IF a # <<>> /\ a[Len(a)].ws THEN SubSeq(a, 1, Len(a) - 1) ELSE a
    IN  [k \in 1..Len(b) |-> IF b[k].ws THEN [ws |-> TRUE, len |-> 1] ELSE b[k]]

\* C12 as stated: the chunks are slices of the text and their rejoining is
\* the text up to whitespace normalization
C12_RejoinIsTextUpToWhitespace ==
    Splitting =>
        /\ Slices(text, AllChunks).ok
        /\ Collapse(Rejoin(AllChunks)) = Collapse(text)

\* C12: every chunk is an exact slice of the text, the slices are in order
\* and only whitespace lies before, between and after them; the rejoined
\* chunks are the text up to whitespace normalization exactly when no chunk
\* boundary has word characters on both sides.
C12_ChunksAreSlices ==
    Splitting =>
        /\ Slices(text, AllChunks).ok
        /\ Slices(text, AllChunks).mids = 0
              <=> Collapse(Rejoin(AllChunks)) = Collapse(text)

\* three chunks: whitespace dropped at the first boundary, a word of 2500
\* characters cut at the second
C12_Witness ==
    /\ Splitting
    /\ text = <<Word(1999), Space(2500), Word(2500)>>
    /\ Len(AllChunks) = 3
    /\ Slices(text, AllChunks).ok
    /\ Slices(text, AllChunks).mids = 1
    /\ Collapse(Rejoin(AllChunks)) # Collapse(text)

\* main found the directory and at least one of the listed files
ValidationPasses ==
    /\ args.directory_exists
    /\ FilesToProcess(args.files, args.existing) # <<>>

\* C13: main returns 0 exactly when validation passes and process_files
\* returns its list without an error; it returns 1 when the directory does
\* not exist, when none of the listed files exists, and when an error is
\* raised while the processor is constructed or the pipeline runs; it
\* returns nothing else.
C13_ExitCodes ==
    /\ pc # "exit" => exit_code = -1
    /\ pc = "exit" =>
        /\ exit_code \in {0, 1}
        /\ exit_code = 0 <=> ValidationPasses /\ retval # <<>> /\ error = ""
        /\ ~args.directory_exists => exit_code = 1
        /\ FilesToProcess(args.files, args.existing) = <<>> => exit_code = 1
        /\ error # "" => exit_code = 1
        /\ error # "" => ValidationPasses /\ retval = <<>>

\* the first file was appended, the cleanup of the second failed: main
\* returned 1
C13_Witness ==
    /\ pc = "exit"
    /\ exit_code = 1
    /\ ValidationPasses
    /\ error = "CleanupError"
    /\ Len(results) = 1

\* the operations of the provider calls of the run, in order
Ops == [k \in 1..Len(calls) |-> calls[k].op]

\* call b may be the next provider call after call a
MayFollow(a, b) ==
    \/ a.op = "create" /\ b.op = "transcribe" /\ b.file = 1
    \/ a.op = "transcribe" /\ b.op \in {"clean", "get"} /\ b.file = a.file
    \/ a.op = "clean" /\ b.op \in {"clean", "get"} /\ b.file = a.file
    \/ a.op = "get" /\ b.op = "batchUpdate" /\ b.file = a.file
    \/ a.op = "batchUpdate" /\ b.op = "transcribe" /\ b.file = a.file + 1

\* the completion calls made so far for the file at position n
CleanCallsOf(n) ==
    Cardinality({k \in 1..Len(calls) :
                    calls[k].op = "clean" /\ calls[k].file = n})

\* C14: the provider calls of a run are in order: per file transcribe, the
\* cleanup calls of all its chunks, the fetch of the document, the insert;
\* a call for the next file comes only after the insert of the file before
\* succeeded; results are recorded only after the append succeeded, never
\* more of them than completed appends.
C14_CallsInOrder ==
    /\ calls # <<>> => calls[1].op = "create"
    /\ \A k \in 1..(Len(calls) - 1) : MayFollow(calls[k], calls[k + 1])
    /\ \A k \in 1..Len(calls) : calls[k].file <= Len(appended) + 1
    /\ pc = "insert" => CleanCallsOf(idx) = Len(Wrap(text, GPT_CHUNK_SIZE))
    /\ Len(results) <= Len(appended)
    /\ pc = "insert" => Len(results) = idx - 1 /\ Len(appended) = idx - 1

\* two files done: two cleanup calls for the first, none for the second
C14_Witness ==
    /\ pc = "returned"
    /\ Len(results) = 2
    /\ Len(appended) = 2
    /\ Ops = <<"create", "transcribe", "clean", "clean", "get", "batchUpdate",
               "transcribe", "get", "batchUpdate">>

\* the get of which the batchUpdate at position j of calls uses the answer
LastGet(j) ==
    CHOOSE k \in 1..(j - 1) :
        /\ calls[k].op = "get"
        /\ calls[k].file = calls[j].file
        /\ \A m \in (k + 1)..(j - 1) : calls[m].file # calls[j].file

\* the call at position j is an insert, and another writer changed the
\* document between the fetch of its index and the insert
StaleInsert(j) ==
    /\ calls[j].op = "batchUpdate"
    /\ \E m \in (LastGet(j) + 1)..(j - 1) : calls[m].op = "batchUpdate"

StaleInserts == {j \in 1..Len(calls) : StaleInsert(j)}

\* C15: with two appenders on one document, every insert puts its text at
\* the index its appender fetched; the text is the end of the document
\* exactly when no other insert came between that fetch and the insert; and
\* the document is the concatenation of the appended texts in insert order
\* exactly when no insert was stale.  Nothing is lost either way.
C15_StaleIndexMisplaces ==
    /\ Len(RunBody) = Len(Concat(appended)) + 1
    /\ StaleInserts = {} <=> RunBody = Concat(appended) \o <<"\n">>
    /\ calls # <<>> /\ calls[Len(calls)].op = "batchUpdate" =>
          LET w == calls[Len(calls)].file
              i == InsertIndex(end_index[w])
              t == formatted_text[w]
          IN  /\ SubSeq(RunBody, i, i + Len(t) - 1) = t
              /\ StaleInsert(Len(calls)) <=> i + Len(t) < Len(RunBody)

\* both appenders fetched the index of the empty document; the text of the
\* one that inserted second is in front of the text inserted first
C15_Witness ==
    /\ Ops = <<"get", "get", "batchUpdate", "batchUpdate">>
    /\ calls[3].file = 2 /\ calls[4].file = 1
    /\ appended = <<AppenderText(2, 1), AppenderText(1, 1)>>
    /\ RunBody = AppenderText(1, 1) \o AppenderText(2, 1) \o <<"\n">>
    /\ RunBody # Concat(appended) \o <<"\n">>

\* there is no token file, or the credential in it is invalid and is not
\* an expired one with a refresh token
ConsentCase ==
    \/ token_file0 = <<>>
    \/ /\ StoredWellFormed
       /\ ~Valid(StoredCreds)
       /\ ~(StoredCreds.expired /\ StoredCreds.refresh_token)

\* C16: without a token file, or with a loaded credential that is invalid
\* and not (expired with a refresh token), _get_credentials makes no
\* refresh call and runs the consent flow once; when the flow succeeds it
\* writes the new credential to the token file once and returns it.
C16_ConsentFlowOnce ==
    ConsentCase =>
        /\ refresh_calls = 0
        /\ pc # "refresh"
        /\ flow_calls <= 1
        /\ token_writes <= flow_calls
        /\ AuthDone => flow_calls = 1
        /\ AuthReturned =>
              /\ token_writes = 1
              /\ creds # <<>> /\ creds[1].issued = "consent"
              /\ Valid(creds[1])
              /\ token_file = <<ToJson(creds[1])>>

\* an expired credential without a refresh token was replaced by a
\* consented one
C16_Witness ==
    /\ StoredWellFormed
    /\ StoredCreds.expired /\ ~StoredCreds.refresh_token
    /\ pc = "creds_returned"
    /\ refresh_calls = 0 /\ flow_calls = 1 /\ token_writes = 1
    /\ creds[1].issued = "consent"
    /\ token_file = <<ToJson(creds[1])>>

\* documents().create was called and raised
CreateFailed == calls # <<>> /\ calls[1] = Call("create", 0, 0)

\* C17: the credential is obtained before any provider call of the run:
\* while _get_credentials runs, and when it failed, no document exists and
\* no call was made; every call is made with the credential returned; and
\* when the creation of the document fails it is the only call of the run:
\* nothing is transcribed, cleaned or appended.
C17_CredentialBeforeCalls ==
    /\ calls # <<>> => /\ AuthReturned
                       /\ creds # <<>>
                       /\ calls[1].op = "create"
    /\ ~AuthReturned => /\ docs = <<>> /\ doc_info = <<>>
                        /\ text = <<>> /\ clean_calls = <<>>
                        /\ appended = <<>> /\ results = <<>>
    /\ error \in AuthErrors => pc \in {"raised", "exit"} /\ calls = <<>>
    /\ CreateFailed =>
          /\ error = "DocumentError"
          /\ pc \in {"raised", "exit"}
          /\ Len(calls) = 1
          /\ docs = <<>> /\ doc_info = <<>>
          /\ text = <<>> /\ clean_calls = <<>>
          /\ appended = <<>> /\ results = <<>> /\ retval = <<>>

\* the credential was refreshed, then the creation of the document failed
\* and main returned
C17_Witness ==
    /\ CreateFailed
    /\ pc = "exit"
    /\ refresh_calls = 1 /\ token_writes = 1
    /\ Valid(creds[1])
    /\ exit_code = 1

\* "<file> <modTime>\n\n<cleanedText>\n---\n\n"
BlockOf(file, cleanedText) ==
    <<file, " ", MTime(file), "\n", "\n">> \o cleanedText
        \o <<"\n", "---", "\n", "\n">>

\* C18: the text appended for the k-th file is the file name, a space, the
\* modification time, two newlines, the cleaned text, a newline, "---" and
\* two newlines, the cleaned text being the transcription_text of the k-th
\* result; when process_files returns, the document is these blocks in
\* input order, in front of the newline that ends every document.
C18_BlockFormat ==
    /\ Len(results) = Len(appended)
    /\ \A k \in 1..Len(appended) :
          /\ results[k].file = files[k]
          /\ appended[k] = BlockOf(files[k], results[k].transcription_text)
    /\ pc = "insert" =>
          formatted_text = BlockOf(files[idx], clean_transcription)
    /\ retval # <<>> =>
          /\ Len(appended) = Len(files)
          /\ RunBody = Concat(appended) \o <<"\n">>

\* two files done, the second with an empty cleaned text
C18_Witness ==
    /\ pc = "returned"
    /\ files = <<"b.mp3", "a.mp3">>
    /\ results[1].transcription_text = <<"x">>
    /\ results[2].transcription_text = <<>>
    /\ RunBody = <<"b.mp3", " ", "2026-10-31 17:40:00", "\n", "\n", "x",
                   "\n", "---", "\n", "\n",
                   "a.mp3", " ", "2026-10-30 08:15:00", "\n", "\n",
                   "\n", "---", "\n", "\n", "\n">>

\* the transcription is empty or whitespace only
BlankText == \A k \in 1..Len(text) : text[k].ws

\* C19: for an empty or whitespace-only transcription clean_text has no
\* chunk, makes no completion call and returns the empty string; the
\* pipeline appends the block of the file with an empty body and records a
\* result with an empty transcription_text.
C19_BlankTranscription ==
    /\ pc \in {"clean_loop", "cleaned", "insert"} /\ BlankText =>
          /\ chunks = <<>> /\ cleaned_chunks = <<>>
          /\ clean_calls = <<>>
          /\ CleanCallsOf(idx) = 0
          /\ error = ""
    /\ pc \in {"cleaned", "insert"} /\ BlankText => clean_result = << <<>> >>
    /\ pc = "insert" /\ BlankText =>
          /\ clean_transcription = <<>>
          /\ formatted_text = BlockOf(files[idx], <<>>)
    /\ pc \in {"loop", "returned"} /\ idx > 1 /\ BlankText =>
          /\ CleanCallsOf(idx - 1) = 0
          /\ Len(results) = idx - 1
          /\ results[idx - 1].file = files[idx - 1]
          /\ results[idx - 1].transcription_text = <<>>
          /\ appended[idx - 1] = BlockOf(files[idx - 1], <<>>)

\* one file with a transcription of one space: create, transcribe, get and
\* batchUpdate are the calls of the run
C19_Witness ==
    /\ pc = "returned"
    /\ text = <<Space(1)>>
    /\ Len(results) = 1
    /\ results[1].transcription_text = <<>>
    /\ Ops = <<"create", "transcribe", "get", "batchUpdate">>
    /\ RunBody = BlockOf(files[1], <<>>) \o <<"\n">>

\* at least one of the listed files exists
SomeListedExists == \E k \in 1..Len(args.files) : args.files[k] \in args.existing

\* process_files was called
PipelineInvoked == pc \in {"process_files", "loop", "clean_text", "clean_loop",
                           "cleaned", "insert", "returned"} \/ calls # <<>>

\* C20: in an existing directory with at least one of the listed files
\* there, main goes on with the listed files that exist, in the order they
\* were listed, whether or not other listed files are missing; process_files
\* is never called with an empty list or with a file that does not exist.
C20_MissingFilesSkipped ==
    /\ pc # "main" /\ args.directory_exists /\ SomeListedExists =>
          /\ files = SelectSeq(args.files, LAMBDA f : f \in args.existing)
          /\ pc = "exit" => error # "" \/ retval # <<>>
    /\ pc # "main" /\ ~(args.directory_exists /\ SomeListedExists) =>
          /\ pc = "exit" /\ exit_code = 1
          /\ files = <<>>
    /\ PipelineInvoked =>
          /\ files # <<>>
          /\ \A k \in 1..Len(files) : files[k] \in args.existing
          /\ args.directory_exists

\* the first of two listed files is missing: the run went on with the second
C20_Witness ==
    /\ args.files = <<"a.mp3", "b.mp3">>
    /\ args.existing = {"b.mp3"}
    /\ pc = "returned"
    /\ files = <<"b.mp3">>
    /\ Len(results) = 1 /\ results[1].file = "b.mp3"

====
